---- MODULE Spec2Model ----
(***************************************************************************)
(* A model of babyai/multienv/multienv.py: one MultiEnvHead, num_menvs     *)
(* MultiEnv workers, and one duplex pipe per worker.  The head and every   *)
(* worker are separate processes; the atomic steps are the pipe operations *)
(* (wait, recv, send), with the local computation that follows one of them *)
(* folded into it.                                                         *)
(***************************************************************************)
EXTENDS Integers, Sequences, FiniteSets, TLC

\* ---------------------------------------------------------------- configuration
num_menvs == 2      \* MultiEnvHead.num_menvs: the number of workers, W
num_envs == 2       \* MultiEnvHead.num_envs: the number of tasks

\* ---------------------------------------------------------------- bounds
MaxCalls == 4       \* calls the host makes of update_dist, reset and step, after the constructors
PipeCap == 2        \* messages a pipe direction buffers before send blocks
MaxPending == 2     \* messages pending on a connection when recv_conns is called alone

Menvs == 0 .. (num_menvs - 1)
Envs == 0 .. (num_envs - 1)
Rewards == {1, 2}   \* the rewards a task's step returns
None == -1          \* Python's None in returnn; rewards are positive, so no return is negative
NoScore == "None"   \* compute_dist=None
Target == num_envs - 1   \* the task the "target" scoring function favours

\* ---------------------------------------------------------------- state
VARIABLES
    compute_dist,         \* MultiEnvHead.compute_dist: None or the name of a scoring function
    returns,              \* MultiEnvHead.returns: env_id -> sequence of returns
    dist,                 \* MultiEnvHead.dist: env_id -> weight, in units of 1/num_envs
    synthesized_returns,  \* MultiEnvHead.synthesized_returns: env_id -> [sum, n] (the mean sum/n)
    hpc,                  \* where the head is inside update_dist
    hdata,                \* recv_conns' data in the head's call
    hwconns,              \* recv_conns' wconns in the head's call, the part not yet read
    hsend,                \* _send_dist's position in self.locals
    cycles,               \* update_dist calls completed
    toHead,               \* per worker: messages sent on head_conn, not yet received by the head
    toWorker,             \* per worker: messages sent on locals[w], not yet received by the worker
    wpc,                  \* where each worker is
    wdist,                \* MultiEnv.dist, as received: [dist, no]; Unset until the first assignment
    env_id,               \* MultiEnv.env_id
    env,                  \* MultiEnv.env: the running task instance
    returnn,              \* MultiEnv.returnn
    wdata,                \* recv_conns' data in the worker's call
    ndrained,             \* history: the number of messages the worker's last drain returned
    episodes,             \* history: episodes the worker has started
    ep_rewards,           \* history: the rewards of the step calls since the last reset
    nsent,                \* history: the number of messages the worker has sent
    ndists,               \* history: the number of messages the head has sent to the worker
    reported,             \* history: "no", then "sent" once a worker has sent a return for
                          \* Target, then "updated" once an update_dist call has completed
    calls,                \* history: the calls the host has made of update_dist, reset and step
    snap,                 \* history: toHead in the initial state
    nscore,               \* history: the number of times compute_dist was invoked
    sentlog,              \* history: per worker, the messages it has sent, in order
    nappended             \* history: per worker, how many of its messages _recv_returns has
                          \* appended to the histories

hvars == <<compute_dist, returns, dist, synthesized_returns, hpc, hdata, hwconns, hsend, cycles>>
wvars == <<wpc, wdist, env_id, env, returnn, wdata, ndrained, episodes, ep_rewards>>
logs == <<nscore, sentlog, nappended>>
vars == <<hvars, toHead, toWorker, wvars, nsent, ndists, reported, calls, snap, logs>>

\* ---------------------------------------------------------------- helpers
Last(s) == s[Len(s)]

RECURSIVE SumSeq(_)
SumSeq(s) == IF s = <<>> THEN 0 ELSE Head(s) + SumSeq(Tail(s))

\* s[-n:] of Python, for n >= 1
LastN(s, n) == IF Len(s) <= n THEN s ELSE SubSeq(s, Len(s) - n + 1, Len(s))

Empties == [w \in Menvs |-> <<>>]

\* numpy.ones(num_envs) / num_envs
Uniform == [e \in Envs |-> 1]
OneHot(t) == [e \in Envs |-> IF e = t THEN num_envs ELSE 0]

\* mp.connection.wait(conns, timeout=.0): the connections with a message to read
wait(chan, conns) == {c \in conns : chan[c] # <<>>}

\* A distribution message: the weights, and (history) the number of the cycle that sent it
DistMsg(d, n) == [dist |-> d, no |-> n]
\* MultiEnv has no attribute dist until _recv_dist assigns one
Unset == DistMsg([e \in Envs |-> 0], 0)

\* ---------------------------------------------------------------- scoring functions
\* a.sum / a.n > b.sum / b.n
MeanGreater(a, b) == a.sum * b.n > b.sum * a.n

\* weight 1 on Target whenever Target has an entry in the mapping, uniform otherwise
ScoreTarget(synth) == IF Target \in DOMAIN synth THEN OneHot(Target) ELSE Uniform

\* weight 1 on the task of lowest mean return (the lowest id of them), uniform without data
ScoreLowest(synth) ==
    IF DOMAIN synth = {} THEN Uniform
    ELSE LET worst == {e \in DOMAIN synth : \A f \in DOMAIN synth : ~MeanGreater(synth[e], synth[f])}
         IN OneHot(CHOOSE e \in worst : \A f \in worst : e <= f)

ScoreFns == {"target", "lowest"}
Score(name, synth) == IF name = "target" THEN ScoreTarget(synth) ELSE ScoreLowest(synth)

\* ---------------------------------------------------------------- MultiEnvHead
\* _recv_returns recording only the newest message of the drain (data[-1], as _recv_dist does)
recv_returns_newest_only(rets, data) ==
    IF data = <<>> THEN rets
    ELSE [rets EXCEPT ![Last(data).msg[1]] = Append(@, Last(data).msg[2])]

\* _recv_returns, after recv_conns has returned data: append each return to its task's history
RECURSIVE recv_returns(_, _)
recv_returns(rets, data) ==
    IF data = <<>> THEN rets
    ELSE LET m == Head(data).msg
         IN recv_returns([rets EXCEPT ![m[1]] = Append(@, m[2])], Tail(data))

\* _synthesize_returns: the mean of every non-empty history
synthesize_returns(rets) ==
    [e \in {f \in Envs : Len(rets[f]) > 0} |-> [sum |-> SumSeq(rets[e]), n |-> Len(rets[e])]]

\* trim_returns keeping the first num_menvs returns of every task ([:num_menvs])
trim_returns_keep_oldest(rets) ==
    [e \in Envs |-> IF Len(rets[e]) <= num_menvs THEN rets[e] ELSE SubSeq(rets[e], 1, num_menvs)]

\* trim_returns with the window off by one
trim_returns_off_by_one(rets) == [e \in Envs |-> LastN(rets[e], num_menvs + 1)]

\* _trim_returns: keep the last num_menvs returns of every task
trim_returns(rets) == [e \in Envs |-> LastN(rets[e], num_menvs)]

\* update_dist computing the scoring function's result and not assigning it
new_dist_unassigned(cd, d, synth) == d

\* update_dist falling back to a scoring function of its own when none was supplied
new_dist_default(cd, d, synth) == IF cd # NoScore THEN Score(cd, synth) ELSE ScoreLowest(synth)

\* update_dist calling compute_dist on the mapping of the previous cycle (compute_dist
\* called before _synthesize_returns)
new_dist_stale_mapping(cd, d, synth) == IF cd # NoScore THEN Score(cd, synthesized_returns) ELSE d

\* the value update_dist assigns to self.dist
new_dist(cd, d, synth) == IF cd # NoScore THEN Score(cd, synth) ELSE d

\* __init__ with every history initialised to the empty list
InitHead_empty_returns ==
    /\ compute_dist \in {NoScore} \cup ScoreFns
    /\ returns = [e \in Envs |-> <<>>]
    /\ dist = Uniform
    /\ synthesized_returns = <<>>
    /\ hpc = "wait"
    /\ hdata = <<>>
    /\ hwconns = {}
    /\ hsend = 0
    /\ cycles = 0

\* __init__ without its call of update_dist
InitHead_no_update ==
    /\ compute_dist \in {NoScore} \cup ScoreFns
    /\ returns = [e \in Envs |-> [i \in 1 .. num_menvs |-> 0]]
    /\ dist = Uniform
    /\ synthesized_returns = <<>>
    /\ hpc = "idle"
    /\ hdata = <<>>
    /\ hwconns = {}
    /\ hsend = 0
    /\ cycles = 0

\* __init__ up to its call of update_dist
InitHead ==
    /\ compute_dist \in {NoScore} \cup ScoreFns
    /\ returns = [e \in Envs |-> [i \in 1 .. num_menvs |-> 0]]
    /\ dist = Uniform
    /\ synthesized_returns = <<>>
    /\ hpc = "wait"
    /\ hdata = <<>>
    /\ hwconns = {}
    /\ hsend = 0
    /\ cycles = 0

\* the host calls update_dist: recv_conns starts with an empty data
update_dist ==
    /\ hpc = "idle"
    /\ calls < MaxCalls
    /\ calls' = calls + 1
    /\ hpc' = "wait"
    /\ hdata' = <<>>
    /\ UNCHANGED <<compute_dist, returns, dist, synthesized_returns, hwconns, hsend, cycles,
                   toHead, toWorker, wvars, nsent, ndists, reported, snap, logs>>

\* head_wait with wait(conns) for wait(conns, timeout=.0): it returns once a connection is
\* ready
head_wait_no_timeout ==
    /\ hpc = "wait"
    /\ wait(toHead, Menvs) # {}
    /\ hwconns' = wait(toHead, Menvs)
    /\ hpc' = "recv"
    /\ UNCHANGED <<compute_dist, returns, dist, synthesized_returns, hdata, hsend, cycles,
                   toHead, toWorker, wvars, nsent, ndists, reported, calls, snap, logs>>

\* recv_conns in the head: wait(conns, timeout=.0); some connections ready, or none and
\* recv_conns returns
head_wait ==
    /\ hpc = "wait"
    /\ hwconns' = wait(toHead, Menvs)
    /\ hpc' = IF hwconns' # {} THEN "recv" ELSE "drained"
    /\ UNCHANGED <<compute_dist, returns, dist, synthesized_returns, hdata, hsend, cycles,
                   toHead, toWorker, wvars, nsent, ndists, reported, calls, snap, logs>>

\* head_recv with `while len(wconns) > 0` written as `if`: one pass over wconns, no second wait
head_recv_one_pass(r) ==
    /\ hpc = "recv"
    /\ r \in hwconns
    /\ hdata' = Append(hdata, [conn |-> r, msg |-> Head(toHead[r])])
    /\ toHead' = [toHead EXCEPT ![r] = Tail(@)]
    /\ hwconns' = hwconns \ {r}
    /\ hpc' = IF hwconns' = {} THEN "drained" ELSE "recv"
    /\ UNCHANGED <<compute_dist, returns, dist, synthesized_returns, hsend, cycles,
                   toWorker, wvars, nsent, ndists, reported, calls, snap, logs>>

\* recv_conns in the head: data.append(r.recv()) for the next r of wconns
head_recv(r) ==
    /\ hpc = "recv"
    /\ r \in hwconns
    /\ hdata' = Append(hdata, [conn |-> r, msg |-> Head(toHead[r])])
    /\ toHead' = [toHead EXCEPT ![r] = Tail(@)]
    /\ hwconns' = hwconns \ {r}
    /\ hpc' = IF hwconns' = {} THEN "wait" ELSE "recv"
    /\ UNCHANGED <<compute_dist, returns, dist, synthesized_returns, hsend, cycles,
                   toWorker, wvars, nsent, ndists, reported, calls, snap, logs>>

\* update_dist after recv_conns has returned: _recv_returns' loop, _synthesize_returns,
\* _trim_returns, compute_dist
head_aggregate ==
    /\ hpc = "drained"
    /\ LET appended == recv_returns(returns, hdata)
       IN /\ synthesized_returns' = synthesize_returns(appended)
          /\ returns' = trim_returns(appended)
    /\ dist' = new_dist(compute_dist, dist, synthesized_returns')
    /\ hdata' = <<>>
    /\ hsend' = 0
    /\ hpc' = "send"
    /\ nscore' = IF compute_dist # NoScore THEN nscore + 1 ELSE nscore
    /\ nappended' = [w \in Menvs |->
            nappended[w] + Cardinality({i \in 1 .. Len(hdata) : hdata[i].conn = w})]
    /\ UNCHANGED <<compute_dist, hwconns, cycles, toHead, toWorker, wvars, nsent, ndists,
                   reported, calls, snap, sentlog>>

\* the message _send_dist sends
dist_msg == DistMsg(dist, cycles + 1)

\* _send_dist that skips a worker whose connection already holds the same distribution
send_dist_skip_same ==
    /\ hpc = "send"
    /\ Len(toWorker[hsend]) < PipeCap
    /\ IF toWorker[hsend] # <<>> /\ Last(toWorker[hsend]).dist = dist
       THEN UNCHANGED <<toWorker, ndists>>
       ELSE /\ toWorker' = [toWorker EXCEPT ![hsend] = Append(@, dist_msg)]
            /\ ndists' = [ndists EXCEPT ![hsend] = @ + 1]
    /\ IF hsend = num_menvs - 1
       THEN /\ hpc' = "idle" /\ cycles' = cycles + 1 /\ hsend' = 0
            /\ reported' = IF reported = "sent" THEN "updated" ELSE reported
       ELSE /\ hpc' = "send" /\ cycles' = cycles /\ hsend' = hsend + 1
            /\ UNCHANGED reported
    /\ UNCHANGED <<compute_dist, returns, dist, synthesized_returns, hdata, hwconns,
                   toHead, wvars, nsent, calls, snap, logs>>

\* _send_dist: local.send(self.dist) for the next local; send blocks while the pipe is full
send_dist ==
    /\ hpc = "send"
    /\ Len(toWorker[hsend]) < PipeCap
    /\ toWorker' = [toWorker EXCEPT ![hsend] = Append(@, dist_msg)]
    /\ ndists' = [ndists EXCEPT ![hsend] = @ + 1]
    /\ IF hsend = num_menvs - 1
       THEN /\ hpc' = "idle" /\ cycles' = cycles + 1 /\ hsend' = 0
            /\ reported' = IF reported = "sent" THEN "updated" ELSE reported
       ELSE /\ hpc' = "send" /\ cycles' = cycles /\ hsend' = hsend + 1
            /\ UNCHANGED reported
    /\ UNCHANGED <<compute_dist, returns, dist, synthesized_returns, hdata, hwconns,
                   toHead, wvars, nsent, calls, snap, logs>>

\* ---------------------------------------------------------------- MultiEnv
\* MultiEnv.envs: the candidate task instances, one per task id
envs == [e \in Envs |-> [task |-> e]]
\* MultiEnv has no attribute env until _select_env assigns one
NoEnv == [task |-> None]

\* the message _send_return sends
return_msg(w) == <<env_id[w], returnn[w]>>

\* _send_return without its test
has_return_always(w) == TRUE

\* _send_return's condition
has_return(w) == returnn[w] # None

\* reset up to _select_env: _send_return (send blocks while the pipe is full), returnn = 0;
\* then recv_conns starts with an empty data
begin_reset(w) ==
    /\ IF has_return(w)
       THEN /\ Len(toHead[w]) < PipeCap
            /\ toHead' = [toHead EXCEPT ![w] = Append(@, return_msg(w))]
            /\ nsent' = [nsent EXCEPT ![w] = @ + 1]
            /\ sentlog' = [sentlog EXCEPT ![w] = Append(@, return_msg(w))]
            /\ reported' = IF reported = "no" /\ env_id[w] = Target THEN "sent" ELSE reported
       ELSE UNCHANGED <<toHead, nsent, sentlog, reported>>
    /\ returnn' = [returnn EXCEPT ![w] = 0]
    /\ ep_rewards' = [ep_rewards EXCEPT ![w] = <<>>]
    /\ wdata' = [wdata EXCEPT ![w] = <<>>]
    /\ wpc' = [wpc EXCEPT ![w] = "recv_dist"]
    /\ UNCHANGED <<hvars, toWorker, wdist, env_id, env, ndrained, episodes, ndists, snap,
                   nscore, nappended>>

\* MultiEnvHead.__init__ has returned: it is not inside its update_dist call. The workers
\* get their connections (head.remotes) from the constructed head.
head_constructed == ~(cycles = 0 /\ hpc # "idle")

\* MultiEnv.__init__: the worker is built on a connection of a constructed head; returnn is
\* None and reset is called
MultiEnv_init(w) ==
    /\ wpc[w] = "new"
    /\ head_constructed
    /\ begin_reset(w)
    /\ UNCHANGED calls

\* the host calls reset on a running worker
reset(w) ==
    /\ wpc[w] = "running"
    /\ calls < MaxCalls
    /\ calls' = calls + 1
    /\ begin_reset(w)

\* recv_conns in the worker: wait finds head_conn ready, data.append(r.recv())
worker_recv(w) ==
    /\ wpc[w] = "recv_dist"
    /\ wait(toWorker, {w}) # {}
    /\ wdata' = [wdata EXCEPT ![w] = Append(@, Head(toWorker[w]))]
    /\ toWorker' = [toWorker EXCEPT ![w] = Tail(@)]
    /\ UNCHANGED <<hvars, toHead, wpc, wdist, env_id, env, returnn, ndrained, episodes,
                   ep_rewards, nsent, ndists, reported, calls, snap, logs>>

\* recv_dist falling back to the uniform distribution of the constructor (no broadcast's)
\* when the drain returns nothing
recv_dist_else_uniform(old, data) == IF Len(data) > 0 THEN Last(data) ELSE DistMsg(Uniform, 0)

\* recv_dist keeping the first message of the drain (data[0]) and not the last
recv_dist_first(old, data) == IF Len(data) > 0 THEN data[1] ELSE old

\* _recv_dist, after recv_conns has returned data: the value of self.dist
recv_dist(old, data) == IF Len(data) > 0 THEN Last(data) ELSE old

\* rng.choice drawing any id of range(num_envs), whatever its weight
choices_any_id(d) == Envs

\* rng.choice(range(num_envs), p=dist): the ids that can be drawn
choices(d) == {e \in Envs : d.dist[e] > 0}

\* recv_conns returns (wait finds nothing), _recv_dist assigns dist, _select_env draws env_id,
\* and the task is reset; without a dist the attribute lookup fails
select_env(w) ==
    /\ wpc[w] = "recv_dist"
    /\ wait(toWorker, {w}) = {}
    /\ wdist' = [wdist EXCEPT ![w] = recv_dist(wdist[w], wdata[w])]
    /\ ndrained' = [ndrained EXCEPT ![w] = Len(wdata[w])]
    /\ wdata' = [wdata EXCEPT ![w] = <<>>]
    /\ IF wdist'[w] = Unset
       THEN /\ wpc' = [wpc EXCEPT ![w] = "error"]
            /\ UNCHANGED <<env_id, env, episodes>>
       ELSE /\ \E e \in choices(wdist'[w]) : env_id' = [env_id EXCEPT ![w] = e]
            /\ env' = [env EXCEPT ![w] = envs[env_id'[w]]]
            /\ wpc' = [wpc EXCEPT ![w] = "running"]
            /\ episodes' = [episodes EXCEPT ![w] = @ + 1]
    /\ UNCHANGED <<hvars, toHead, toWorker, returnn, ep_rewards, nsent, ndists, reported,
                   calls, snap, logs>>

\* step with `self.returnn = reward` for `self.returnn += reward`
step_overwrite(w, reward) ==
    /\ wpc[w] = "running"
    /\ calls < MaxCalls
    /\ calls' = calls + 1
    /\ returnn' = [returnn EXCEPT ![w] = reward]
    /\ ep_rewards' = [ep_rewards EXCEPT ![w] = Append(@, reward)]
    /\ UNCHANGED <<hvars, toHead, toWorker, wpc, wdist, env_id, env, wdata, ndrained, episodes,
                   nsent, ndists, reported, snap, logs>>

\* step: the task's reward is added to returnn
step(w, reward) ==
    /\ wpc[w] = "running"
    /\ calls < MaxCalls
    /\ calls' = calls + 1
    /\ returnn' = [returnn EXCEPT ![w] = @ + reward]
    /\ ep_rewards' = [ep_rewards EXCEPT ![w] = Append(@, reward)]
    /\ UNCHANGED <<hvars, toHead, toWorker, wpc, wdist, env_id, env, wdata, ndrained, episodes,
                   nsent, ndists, reported, snap, logs>>

\* no worker exists yet: MultiEnv.__init__ has not run
InitWorkers ==
    /\ wpc = [w \in Menvs |-> "new"]
    /\ wdist = [w \in Menvs |-> Unset]
    /\ env_id = [w \in Menvs |-> 0]
    /\ env = [w \in Menvs |-> NoEnv]
    /\ returnn = [w \in Menvs |-> None]
    /\ wdata = Empties
    /\ ndrained = [w \in Menvs |-> 0]
    /\ episodes = [w \in Menvs |-> 0]
    /\ ep_rewards = Empties

\* ---------------------------------------------------------------- specification
Init ==
    /\ InitHead
    /\ InitWorkers
    /\ toHead = Empties
    /\ toWorker = Empties
    /\ snap = Empties
    /\ calls = 0
    /\ reported = "no"
    /\ nsent = [w \in Menvs |-> 0]
    /\ ndists = [w \in Menvs |-> 0]
    /\ nscore = 0
    /\ sentlog = Empties
    /\ nappended = [w \in Menvs |-> 0]

Next ==
    \/ update_dist
    \/ head_wait
    \/ \E r \in Menvs : head_recv(r)
    \/ head_aggregate
    \/ send_dist
    \/ \E w \in Menvs : MultiEnv_init(w)
    \/ \E w \in Menvs : reset(w)
    \/ \E w \in Menvs : worker_recv(w)
    \/ \E w \in Menvs : select_env(w)
    \/ \E w \in Menvs, reward \in Rewards : step(w, reward)

Spec == Init /\ [][Next]_vars

\* The head with a scoring function whose result changes from cycle to cycle
InitFair == Init /\ compute_dist = "lowest"

\* The head and the workers are processes of their own: once update_dist or reset is
\* called, the steps of its drain (and of the head's aggregation) are taken as long as they
\* can be. Nothing is assumed of the host's calls or of a send on a full pipe.
FairSpec ==
    /\ InitFair
    /\ [][Next]_vars
    /\ WF_vars(head_wait)
    /\ WF_vars(\E r \in Menvs : head_recv(r))
    /\ WF_vars(head_aggregate)
    /\ \A w \in Menvs : WF_vars(worker_recv(w)) /\ WF_vars(select_env(w))

\* ---------------------------------------------------------------- recv_conns alone
\* The head calls recv_conns on connections that hold any messages the workers can have
\* sent, and no worker sends during the call (the host has stopped driving them).
Returns == {0, 1, 2}   \* the returns of the messages and histories drawn for an initial state
ReturnMsgs == Envs \X Returns
Min(a, b) == IF a <= b THEN a ELSE b
RECURSIVE SeqsUpTo(_, _)
SeqsUpTo(S, n) ==
    IF n = 0 THEN {<<>>}
    ELSE LET shorter == SeqsUpTo(S, n - 1)
         IN shorter \cup {Append(q, x) : q \in shorter, x \in S}

InitDrain ==
    /\ compute_dist = NoScore
    /\ returns = [e \in Envs |-> [i \in 1 .. num_menvs |-> 0]]
    /\ dist = Uniform
    /\ synthesized_returns = synthesize_returns(returns)
    /\ hpc = "wait"
    /\ hdata = <<>>
    /\ hwconns = {}
    /\ hsend = 0
    /\ cycles = 1
    /\ toHead \in [Menvs -> SeqsUpTo(ReturnMsgs, Min(MaxPending, PipeCap))]
    /\ snap = toHead
    /\ calls = 0
    /\ reported = "no"
    /\ nsent = [w \in Menvs |-> Len(toHead[w])]
    /\ ndists = [w \in Menvs |-> 1]
    /\ toWorker = Empties
    /\ wpc = [w \in Menvs |-> "stopped"]
    /\ wdist = [w \in Menvs |-> DistMsg(Uniform, 1)]
    /\ env_id = [w \in Menvs |-> 0]
    /\ env = [w \in Menvs |-> envs[0]]
    /\ returnn = [w \in Menvs |-> 0]
    /\ wdata = Empties
    /\ ndrained = [w \in Menvs |-> 1]
    /\ episodes = [w \in Menvs |-> 1]
    /\ ep_rewards = Empties
    /\ nscore = 0
    /\ sentlog = toHead
    /\ nappended = [w \in Menvs |-> 0]

NextDrain ==
    \/ head_wait
    \/ \E r \in Menvs : head_recv(r)

SpecDrain == InitDrain /\ [][NextDrain]_vars

\* ---------------------------------------------------------------- claims
\* the messages of data that were read from connection c, in data's order
RECURSIVE FromConn(_, _)
FromConn(data, c) ==
    IF data = <<>> THEN <<>>
    ELSE IF Head(data).conn = c THEN <<Head(data).msg>> \o FromConn(Tail(data), c)
    ELSE FromConn(Tail(data), c)

\* C1: when recv_conns returns, and nothing was sent during the call, the returned list
\* holds exactly the messages that were pending at the call, each once, those of one
\* connection in the order they were sent, and every connection is empty.
C1_DrainExhaustive ==
    hpc = "drained" =>
        /\ \A c \in Menvs : FromConn(hdata, c) = snap[c] /\ toHead[c] = <<>>
        /\ \A i \in 1 .. Len(hdata) : hdata[i].conn \in Menvs
        /\ Len(hdata) = SumSeq([c \in 1 .. num_menvs |-> Len(snap[c - 1])])

\* a drain has returned two different messages of one connection and one of another
C1_Witness ==
    /\ hpc = "drained"
    /\ Len(hdata) >= 3
    /\ \E c \in Menvs, d \in Menvs :
        /\ c # d
        /\ Len(snap[c]) = 2
        /\ snap[c][1] # snap[c][2]
        /\ Len(snap[d]) >= 1

\* the number of the last broadcast sent to worker w
SentTo(w) == IF hpc = "send" /\ hsend > w THEN cycles + 1 ELSE cycles

\* worker w's drain returns in this step and _select_env goes on
Selects(w) == wpc[w] = "recv_dist" /\ wpc'[w] # "recv_dist"

\* C2: at every reset, when the drain returns k >= 1 distributions the active distribution
\* becomes the last-sent of them (the newest the head has sent to this worker), the k-1
\* earlier ones are older and are dropped, and the task is drawn from it; when the drain
\* returns nothing the active distribution stays what it was.
C2_LatestWins ==
    [][\A w \in Menvs : Selects(w) =>
        LET k == Len(wdata[w])
        IN /\ k >= 1 =>
                /\ wdist'[w] = wdata[w][k]
                /\ wdist'[w].no = SentTo(w)
                /\ \A i \in 1 .. (k - 1) : wdata[w][i].no < wdist'[w].no
                /\ toWorker'[w] = <<>>
           /\ k = 0 => wdist'[w] = wdist[w]
           /\ wpc'[w] = "running" => wdist'[w].dist[env_id'[w]] > 0]_vars

\* a worker runs a task drawn from the second broadcast, which its drain returned together
\* with the first one, and the two carry different weights
C2_Witness ==
    \E w \in Menvs :
        /\ wpc[w] = "running"
        /\ ndrained[w] = 2
        /\ wdist[w].no = 2
        /\ compute_dist = "lowest"
        /\ wdist[w].dist = OneHot(1)
        /\ env_id[w] = 1

\* C3: after construction and after any number of update_dist calls, whatever the workers
\* report and when, every task's history holds at most W = num_menvs returns.
C3_HistoryBound == \A e \in Envs : Len(returns[e]) <= num_menvs

\* a cycle has received more than W returns for one task (its mean is over the W old and
\* the new ones) and has cut the history back to W
C3_Witness ==
    /\ hpc \in {"send", "idle"}
    /\ \E e \in Envs :
        /\ e \in DOMAIN synthesized_returns
        /\ synthesized_returns[e].n > 2 * num_menvs
        /\ Len(returns[e]) = num_menvs

\* worker w sends a message in this step
Sends(w) == nsent'[w] > nsent[w]

\* C4: the reset made by a worker's constructor, before any step, sends nothing; a worker
\* sends a message only in a reset that finds an accumulated return of a previous episode.
C4_NoReturnNoMessage ==
    [][\A w \in Menvs :
        /\ wpc[w] = "new" /\ wpc'[w] # "new" =>
                toHead'[w] = toHead[w] /\ nsent'[w] = 0 /\ returnn[w] = None
        /\ Sends(w) => returnn[w] # None /\ episodes[w] >= 1 /\ wpc[w] = "running"
        /\ toHead'[w] # toHead[w] /\ Len(toHead'[w]) > Len(toHead[w]) => Sends(w)]_vars

\* one worker has made its first reset and sent nothing, another has ended an episode and
\* sent its return
C4_Witness ==
    \E w \in Menvs, v \in Menvs :
        /\ wpc[w] = "running" /\ episodes[w] = 1 /\ nsent[w] = 0 /\ toHead[w] = <<>>
        /\ nsent[v] = 1 /\ Len(toHead[v]) = 1

\* C5: the message a worker sends at a reset is (t, r), t the task that was active in the
\* episode just ended and r the sum of the rewards of the step calls since the previous
\* reset; the accumulator then restarts from 0.
C5_ReturnAccumulation ==
    [][\A w \in Menvs : Sends(w) =>
        /\ toHead'[w] = Append(toHead[w], <<env_id[w], SumSeq(ep_rewards[w])>>)
        /\ returnn'[w] = 0
        /\ env_id'[w] = env_id[w]]_vars

\* a return that is the sum of the rewards of two steps (1 and 2, either order) is on its way
\* to the head, and its worker has drawn its next task
C5_Witness ==
    \E w \in Menvs :
        /\ Len(toHead[w]) = 1
        /\ toHead[w][1][2] = 3
        /\ ep_rewards[w] = <<>>
        /\ wpc[w] = "running"
        /\ episodes[w] = 2

\* C6: without a scoring function the head's distribution is uniform after construction
\* and stays so after any number of update_dist calls, whatever the workers report, and so
\* is every distribution it broadcasts.
C6_UniformDefault ==
    compute_dist = NoScore =>
        /\ \A e \in Envs : dist[e] * num_envs = SumSeq([i \in 1 .. num_envs |-> dist[i - 1]])
        /\ dist = Uniform
        /\ \A w \in Menvs :
            /\ \A i \in 1 .. Len(toWorker[w]) : toWorker[w][i].dist = Uniform
            /\ \A i \in 1 .. Len(wdata[w]) : wdata[w][i].dist = Uniform
            /\ wdist[w] # Unset => wdist[w].dist = Uniform

\* three cycles have run, returns have entered the histories, and the distribution is uniform
C6_Witness ==
    /\ compute_dist = NoScore
    /\ cycles = 3
    /\ hpc = "idle"
    /\ \E e \in Envs : SumSeq(returns[e]) > 0
    /\ dist = Uniform

\* C7: every update_dist call, the constructor's included, sends one message to every
\* worker, the head's current distribution, whether or not the worker sent anything and
\* whether or not the distribution changed: the number of distributions sent to a worker is
\* the number of cycles run (one more for the workers already served by a running broadcast).
C7_UnconditionalBroadcast ==
    \A w \in Menvs :
        /\ ndists[w] = IF hpc = "send" /\ hsend > w THEN cycles + 1 ELSE cycles
        /\ ~(hpc = "send" /\ hsend <= w) /\ toWorker[w] # <<>> =>
                Last(toWorker[w]) = DistMsg(dist, ndists[w])

\* three cycles have run; a worker that has never sent anything holds two pending
\* distributions of the same weights
C7_Witness ==
    /\ cycles = 3
    /\ hpc = "idle"
    /\ \E w \in Menvs :
        /\ nsent[w] = 0
        /\ ndists[w] = 3
        /\ Len(toWorker[w]) = 2
        /\ toWorker[w][1].dist = toWorker[w][2].dist

\* C8: no worker ever draws a task without a distribution: the reset made by a worker's
\* constructor obtains at least one distribution from its connection, because the head's
\* constructor has broadcast one.
C8_FirstDistribution ==
    \A w \in Menvs :
        /\ wpc[w] # "error"
        /\ wpc[w] = "running" => wdist[w] # Unset /\ wdist[w].dist[env_id[w]] > 0
        /\ wpc[w] = "running" /\ episodes[w] = 1 => ndrained[w] >= 1

\* a worker built right after the head runs its first episode on the head's first broadcast
C8_Witness ==
    \E w \in Menvs :
        /\ wpc[w] = "running"
        /\ episodes[w] = 1
        /\ ndrained[w] = 1
        /\ wdist[w].no = 1
        /\ cycles = 1

\* update_dist is inside _send_dist and the pipe of the next worker is full
HeadBlocked == hpc = "send" /\ ~ENABLED send_dist

\* a reset of worker w, called now, would not get past _send_return
WorkerBlocked(w) == wpc[w] = "running" /\ ~ENABLED begin_reset(w)

\* C9: update_dist can always run to completion whatever the workers do or fail to do,
\* neither its receive nor its broadcast send waits for a worker; and a worker's reset can
\* always run to completion whatever the head does.
C9_NonBlocking == ~HeadBlocked /\ \A w \in Menvs : ~WorkerBlocked(w)

\* C10: with the scoring function that puts weight 1 on Target whenever Target has a
\* recorded return, once a worker has sent a return for Target and an update_dist call has
\* completed after that, every reset of every worker selects Target.
C10_Propagation ==
    [][\A w \in Menvs :
        compute_dist = "target" /\ reported = "updated" /\ Selects(w) =>
            wpc'[w] = "running" /\ env_id'[w] = Target]_vars

\* after a return for Target was sent and an update_dist call completed, one worker has
\* made a later reset and a worker built afterwards its first one: both run Target
C10_Witness ==
    /\ compute_dist = "target"
    /\ reported = "updated"
    /\ \E w \in Menvs, v \in Menvs :
        /\ wpc[w] = "running" /\ episodes[w] = 2 /\ env_id[w] = Target /\ wdist[w].no >= 2
        /\ wpc[v] = "running" /\ episodes[v] = 1 /\ env_id[v] = Target /\ nsent[v] = 0
        /\ wdist[v].no >= 2

\* C11: the task id a reset selects is in [0, num_envs), is drawn from the distribution
\* that is active after that reset's drain (the last message of the drain, or the one
\* active before when the drain returned nothing), has a weight other than 0 in it, and
\* the running task instance is the candidate task at that id.
C11_SamplingRespectsDist ==
    [][\A w \in Menvs : Selects(w) /\ wpc'[w] = "running" =>
        LET active == IF wdata[w] # <<>> THEN Last(wdata[w]) ELSE wdist[w]
        IN /\ env_id'[w] \in 0 .. (num_envs - 1)
           /\ wdist'[w] = active
           /\ active.dist[env_id'[w]] # 0
           /\ env'[w] = envs[env_id'[w]]]_vars

\* under the scoring function that favours the task of lowest mean, one worker runs task 0
\* drawn from a distribution of weight 0 on task 1, and another runs task 1 drawn from a
\* later distribution of weight 0 on task 0
C11_Witness ==
    /\ compute_dist = "lowest"
    /\ \E w \in Menvs, v \in Menvs :
        /\ wpc[w] = "running" /\ wdist[w].dist = OneHot(0) /\ env_id[w] = 0 /\ env[w] = envs[0]
        /\ wpc[v] = "running" /\ wdist[v].dist = OneHot(1) /\ env_id[v] = 1 /\ env[v] = envs[1]
        /\ wdist[v].no > wdist[w].no

\* some worker has sent a return for task e
Reported(e) == \E w \in Menvs : \E i \in 1 .. Len(sentlog[w]) : sentlog[w][i][1] = e

\* C12: construction initialises every task's history to the empty sequence, so the
\* synthesized-returns mapping a cycle computes contains a task only if a worker has
\* reported a return for it, and the cycle run by the constructor computes an empty mapping.
C12_EmptyInitialHistory ==
    /\ cycles = 0 /\ hpc = "wait" /\ hdata = <<>> => \A e \in Envs : returns[e] = <<>>
    /\ \A e \in DOMAIN synthesized_returns : Reported(e)
    /\ cycles = 0 /\ hpc = "send" => DOMAIN synthesized_returns = {}

\* update_dist gets from recv_conns' return to _send_dist in this step
Aggregates == hpc = "drained" /\ hpc' = "send"

\* C13: in every cycle the synthesized return of a task is the arithmetic mean of its
\* windowed history (its at most W most recent entries, what the history is after the
\* cycle's trim), also in a cycle that received new returns for the task.
C13_WindowedMean ==
    [][Aggregates =>
        \A e \in DOMAIN synthesized_returns' :
            synthesized_returns'[e].sum * Len(returns'[e])
                = SumSeq(returns'[e]) * synthesized_returns'[e].n]_vars

\* C14: with a scoring function, every update_dist call invokes it exactly once, on the
\* synthesized returns computed in that cycle from the returns drained in that cycle, and
\* the distribution the cycle broadcasts is its result.
C14_ScoringInvocation ==
    [][compute_dist # NoScore =>
        /\ Aggregates =>
                /\ synthesized_returns' = synthesize_returns(recv_returns(returns, hdata))
                /\ dist' = Score(compute_dist, synthesized_returns')
                /\ nscore' = nscore + 1
        /\ ~Aggregates => nscore' = nscore /\ dist' = dist
        /\ nscore' = IF hpc' = "send" THEN cycles' + 1 ELSE cycles'
        /\ \A w \in Menvs : ndists'[w] > ndists[w] =>
                /\ Last(toWorker'[w]).dist = Score(compute_dist, synthesized_returns)
                /\ Last(toWorker'[w]).no = nscore]_vars

\* the second cycle has scored a mapping that holds a return received in it, its result
\* differs from the first cycle's, and it is what the cycle has sent to a worker that still
\* holds the first one
C14_Witness ==
    /\ compute_dist = "lowest"
    /\ hpc = "idle"
    /\ cycles = 2
    /\ nscore = 2
    /\ dist = OneHot(1)
    /\ synthesized_returns[0].n = num_menvs + 1
    /\ synthesized_returns[0].sum > 0
    /\ \E w \in Menvs :
        /\ Len(toWorker[w]) = 2
        /\ toWorker[w][1] = DistMsg(OneHot(0), 1)
        /\ toWorker[w][2] = DistMsg(OneHot(1), 2)

\* C15: a worker sends one message for each completed episode and no other message: a
\* reset that does not follow a completed episode sends nothing. An episode completes in a
\* step call, so a reset called right after a reset (no step since) sends nothing, and a
\* worker has sent at most one message per episode in which it stepped.
C15_OneMessagePerEpisode ==
    [][\A w \in Menvs :
        /\ Sends(w) => ep_rewards[w] # <<>> /\ nsent'[w] = nsent[w] + 1
        /\ wpc[w] = "running" /\ wpc'[w] = "recv_dist" /\ ep_rewards[w] = <<>> =>
                toHead'[w] = toHead[w]]_vars

\* the returns of data's messages for task e, in data's order
RECURSIVE ReturnsFor(_, _)
ReturnsFor(data, e) ==
    IF data = <<>> THEN <<>>
    ELSE IF Head(data).msg[1] = e THEN <<Head(data).msg[2]>> \o ReturnsFor(Tail(data), e)
    ELSE ReturnsFor(Tail(data), e)

\* C16: after an update_dist call every task's history is the last W elements, in the same
\* order, of its history before the call followed by the returns received for it in this
\* call in drain order; the history of a task that received nothing is unchanged.
C16_TrimKeepsNewest ==
    [][Aggregates =>
        \A e \in Envs :
            LET all == returns[e] \o ReturnsFor(hdata, e)
                n == Len(all)
            IN /\ Len(returns'[e]) = IF n < num_menvs THEN n ELSE num_menvs
               /\ \A i \in 1 .. Len(returns'[e]) :
                    returns'[e][i] = all[n - Len(returns'[e]) + i]
               /\ ReturnsFor(hdata, e) = <<>> => returns'[e] = returns[e]]_vars

\* a cycle has received the returns 2 and 0, in this order, for one task and nothing for
\* another: the first history has lost its two oldest entries, the second is as it was
C16_Witness ==
    /\ hpc \in {"send", "idle"}
    /\ \E e \in Envs, f \in Envs :
        /\ synthesized_returns[e].n = num_menvs + 2
        /\ returns[e] = <<2, 0>>
        /\ synthesized_returns[f].n = num_menvs
        /\ returns[f] = <<0, 0>>

\* the messages of worker w that are on their way to the histories: read by the running
\* drain, or still on the connection
InFlight(w) == FromConn(hdata, w) \o toHead[w]

\* C17: every message a worker sends is appended to the history of its task in exactly one
\* cycle, none is lost or counted twice, and the returns of one worker are appended in the
\* order they were sent. When update_dist is called this eventually happens: the call gets
\* to its aggregation, which appends every message sent so far but those still on a
\* connection, and a connection holds only messages sent after the drain's last poll.
C17_NoReturnLost ==
    /\ [](\A w \in Menvs :
            /\ Len(sentlog[w]) = nsent[w]
            /\ nappended[w] <= nsent[w]
            /\ InFlight(w) = SubSeq(sentlog[w], nappended[w] + 1, nsent[w]))
    /\ [][Aggregates =>
            /\ \A e \in Envs :
                /\ synthesized_returns'[e].n = Len(returns[e]) + Len(ReturnsFor(hdata, e))
                /\ synthesized_returns'[e].sum
                        = SumSeq(returns[e]) + SumSeq(ReturnsFor(hdata, e))
                /\ returns'[e] = LastN(returns[e] \o ReturnsFor(hdata, e), num_menvs)
            /\ \A w \in Menvs :
                /\ nappended'[w] = nappended[w] + Len(FromConn(hdata, w))
                /\ nappended'[w] = nsent[w] - Len(toHead[w])
            /\ hdata' = <<>>]_vars
    /\ [][hpc = "wait" /\ hpc' = "drained" => \A w \in Menvs : toHead[w] = <<>>]_vars
    /\ (hpc = "wait") ~> (hpc = "send")

\* a worker has sent two different returns for one task and the head has appended both in
\* one cycle, the second after the first
C17_Witness ==
    \E w \in Menvs :
        /\ nsent[w] = 2
        /\ nappended[w] = 2
        /\ sentlog[w][1][1] = sentlog[w][2][1]
        /\ sentlog[w][1][2] # sentlog[w][2][2]
        /\ returns[sentlog[w][1][1]] = <<sentlog[w][1][2], sentlog[w][2][2]>>

\* the head's recv_conns polls in this step
HeadPolls == hpc = "wait" /\ hpc' # "wait"

Broadcasts == IF hpc = "send" THEN cycles + 1 ELSE cycles

\* C19: with the head's broadcasts numbered 1, 2, 3, ... in the order of its cycles, the
\* number of the distribution active at a worker never decreases from one reset to the
\* next, and it never exceeds the number of cycles the head has completed or started
\* broadcasting (nor the number of those already sent to this worker).
C19_NoReversion ==
    [][\A w \in Menvs :
        /\ wdist'[w].no >= wdist[w].no
        /\ wdist'[w].no <= Broadcasts'
        /\ wdist'[w].no <= ndists'[w]
        /\ Selects(w) => \A i \in 1 .. Len(wdata[w]) : wdata[w][i].no <= wdist'[w].no]_vars

\* after two broadcasts, one worker has made a second reset whose drain returned nothing and
\* still runs on the first, another has made a second reset and moved on to the second
C19_Witness ==
    /\ cycles = 2
    /\ \E w \in Menvs, v \in Menvs :
        /\ wpc[w] = "running" /\ episodes[w] = 2 /\ ndrained[w] = 0 /\ wdist[w].no = 1
        /\ wpc[v] = "running" /\ episodes[v] = 2 /\ ndrained[v] = 1 /\ wdist[v].no = 2

\* C20: with num_menvs >= 1 every task's history has length exactly W between any two
\* update_dist calls (W zeros at first, appended to and cut back to W in a call), so the
\* synthesized-returns mapping of every cycle, the constructor's included, has an entry for
\* every task in [0, num_envs), a mean over at least W values, and is never partial.
C20_EveryTaskSeen ==
    /\ \A e \in Envs : Len(returns[e]) = num_menvs
    /\ hpc = "send" \/ cycles >= 1 =>
            /\ DOMAIN synthesized_returns = 0 .. (num_envs - 1)
            /\ \A e \in Envs : synthesized_returns[e].n >= num_menvs

\* the second cycle has computed a mapping with an entry for a task no worker has reported
\* (the mean of its W zeros) next to one for a task that received a return in this cycle
C20_Witness ==
    /\ cycles = 2
    /\ hpc = "idle"
    /\ \E e \in Envs, f \in Envs :
        /\ ~Reported(e)
        /\ synthesized_returns[e] = [sum |-> 0, n |-> num_menvs]
        /\ Reported(f)
        /\ synthesized_returns[f].n = num_menvs + 1
        /\ synthesized_returns[f].sum > 0
====
